---------------------------- MODULE Spec2Model ----------------------------
(***************************************************************************)
(* Model of usr/usr/bin/hw-management-thermal-control.py (Python 2: the    *)
(* file uses print statements and dict.iteritems).                         *)
(*                                                                         *)
(* The hw-management tree is modelled as plain files: a write stores the   *)
(* string, a read returns it.  One thermal_poll tick is one action; the    *)
(* methods it calls are operators from a state record to a state record,   *)
(* composed in the order the code calls them.  An uncaught exception sets  *)
(* the record's exc field and every later step of the tick is skipped (the *)
(* Timer thread dies, the next timer is already armed, line 453-455).      *)
(***************************************************************************)
EXTENDS Integers, Sequences, FiniteSets, TLC

(***************************************************************************)
(* Bounds of the model (configuration the daemon is given, and the sizes   *)
(* of the sets the environment draws from).                                *)
(***************************************************************************)
MaxTachos == 1
MaxPsus == 1
MaxModules == 2
MaxGearboxes == 2

(***************************************************************************)
(* HWConst and the module-level constants, lines 90-124.                   *)
(***************************************************************************)
PWM_NOACT == 0
PWM_MAX == 1
PWM_DEF_RPM == 153
FAN_MAX_STATE == 10
COOLING_SET_MAX_STATE == 20
COOLING_SET_DEF_STATE == 16
TEMP_TABLE_SCALE == 1000
CALCULATE_TZ_SCORE == 1
TRIP_POINTS_NUM == 4
HYSTERESIS == 5000
PSU_FAN_SPEED == <<60, 60, 60, 60, 60, 60, 60, 70, 80, 90, 100>>
TZ_ASIC_TRIPS == <<75, 85, 105, 110>>
TZ_MODULE_TRIPS == <<60, 70, 80, 90>>
TZ_GEARBOX_TRIPS == <<75, 85, 105, 110>>

(***************************************************************************)
(* Thermal tables, lines 179-314.  A dict {"lo:hi": level} is a sequence   *)
(* of <<lo, hi, level>> in the order of the literal; the order in which     *)
(* iteritems() visits it is the interpreter's (see DictOrders).            *)
(***************************************************************************)
TABLE_CLASS1 ==
  [ p2c_trust   |-> << <<-127, 40, 13>>, <<41, 120, 15>> >>,
    p2c_untrust |-> << <<-127, 25, 13>>, <<26, 30, 14>>, <<31, 35, 15>>, <<36, 120, 16>> >>,
    c2p_trust   |-> << <<-127, 20, 13>>, <<21, 25, 14>>, <<26, 30, 15>>, <<31, 120, 16>> >>,
    c2p_untrust |-> << <<-127, 20, 13>>, <<21, 25, 14>>, <<26, 30, 15>>, <<31, 120, 16>> >>,
    unk_trust   |-> << <<-127, 20, 13>>, <<21, 25, 14>>, <<26, 30, 15>>, <<31, 120, 16>> >>,
    unk_untrust |-> << <<-127, 20, 13>>, <<21, 25, 14>>, <<26, 30, 15>>, <<31, 120, 16>> >> ]

TABLE_CLASS2 ==
  [ p2c_trust   |-> << <<-127, 120, 12>> >>,
    p2c_untrust |-> << <<-127, 15, 12>>, <<16, 25, 13>>, <<26, 31, 14>>, <<31, 35, 15>>, <<36, 120, 16>> >>,
    c2p_trust   |-> << <<-127, 40, 12>>, <<41, 120, 13>> >>,
    c2p_untrust |-> << <<-127, 40, 12>>, <<41, 120, 13>> >>,
    unk_trust   |-> << <<-127, 40, 12>>, <<41, 120, 13>> >>,
    unk_untrust |-> << <<-127, 15, 12>>, <<16, 25, 13>>, <<26, 31, 14>>, <<31, 35, 15>>, <<36, 120, 16>> >> ]

TABLE_CLASS3 ==
  [ p2c_trust   |-> << <<-127, 120, 13>> >>,
    p2c_untrust |-> << <<-127, 35, 13>>, <<36, 14, 14>>, <<41, 120, 15>> >>,
    c2p_trust   |-> << <<-127, 120, 13>> >>,
    c2p_untrust |-> << <<-127, 15, 13>>, <<16, 31, 14>>, <<31, 35, 15>>, <<36, 120, 17>> >>,
    unk_trust   |-> << <<-127, 120, 13>> >>,
    unk_untrust |-> << <<-127, 15, 13>>, <<16, 31, 14>>, <<31, 35, 15>>, <<36, 120, 17>> >> ]

TABLE_CLASS4 ==
  [ p2c_trust   |-> << <<-127, 120, 20>> >>,
    p2c_untrust |-> << <<-127, 10, 20>>, <<11, 15, 13>>, <<16, 20, 14>>, <<21, 31, 15>>, <<31, 120, 16>> >>,
    c2p_trust   |-> << <<-127, 120, 20>> >>,
    c2p_untrust |-> << <<-127, 20, 20>>, <<21, 25, 13>>, <<26, 31, 14>>, <<31, 35, 15>>, <<36, 120, 16>> >>,
    unk_trust   |-> << <<-127, 120, 20>> >>,
    unk_untrust |-> << <<-127, 10, 20>>, <<11, 15, 13>>, <<16, 20, 14>>, <<11, 31, 15>>, <<31, 120, 16>> >> ]

TABLE_CLASS5 ==
  [ p2c_trust   |-> << <<-127, 120, 16>> >>,
    p2c_untrust |-> << <<-127, 120, 16>> >>,
    c2p_trust   |-> << <<-127, 120, 16>> >>,
    unk_trust   |-> << <<-127, 120, 16>> >>,
    unk_untrust |-> << <<-127, 120, 16>> >> ]

THERMAL_TABLE_LIST ==
  [ TC1 |-> [table |-> TABLE_CLASS1, trust |-> 16, untrust |-> 16],
    TC2 |-> [table |-> TABLE_CLASS2, trust |-> 13, untrust |-> 16],
    TC3 |-> [table |-> TABLE_CLASS3, trust |-> 13, untrust |-> 17],
    TC4 |-> [table |-> TABLE_CLASS4, trust |-> 12, untrust |-> 16],
    TC5 |-> [table |-> TABLE_CLASS5, trust |-> 12, untrust |-> 16] ]

\* GetFanDynamicTable without the branch of class 6.
GetFanDynamicTableToFive(thermal_type) ==
  CASE thermal_type = 1 -> "TC1"
    [] thermal_type = 2 -> "TC2"
    [] thermal_type = 3 -> "TC3"
    [] thermal_type = 4 -> "TC4"
    [] thermal_type = 5 -> "TC5"
    [] OTHER -> "None"

\* _get_fan_dynamic_table: the key of THERMAL_TABLE_LIST, "None" when unsupported.
GetFanDynamicTable(thermal_type) ==
  CASE thermal_type = 1 -> "TC1"
    [] thermal_type = 2 -> "TC2"
    [] thermal_type = 3 -> "TC3"
    [] thermal_type = 4 -> "TC4"
    [] thermal_type = 5 -> "TC5"
    [] thermal_type = 6 -> "TC5"
    [] OTHER -> "None"


(***************************************************************************)
(* State.                                                                  *)
(*  phase : where the daemon is in Daemon.start (lines 1446-1467)          *)
(*  cfg   : what the daemon is given and never changes: command line,      *)
(*          config/ files, the interpreter's dict order                    *)
(*  mem   : the fields of the ThermalManagement object (lines 498-517)     *)
(*  tree  : the files of the hw-management tree the daemon writes, and     *)
(*          config/suspend, written by "suspend"/"resume" of another       *)
(*          process (lines 594-608, 699-705)                               *)
(*  sens  : the files the kernel writes (sensors), read-only to the daemon *)
(*  env   : the values the environment draws the sensor readings from     *)
(*  last  : a record of what the daemon's last operation did (history      *)
(*          variable)                                                      *)
(*  timers: the two RepeatedTimer objects of the controller and the        *)
(*          threads their Timers started (lines 428-473, 576-579)          *)
(***************************************************************************)
VARIABLES phase, cfg, mem, tree, sens, env, last, timers

vars == <<phase, cfg, mem, tree, sens, env, last, timers>>

\* Thermal zones: the directories thermal/mlxsw, thermal/mlxsw-moduleN,
\* thermal/mlxsw-gearboxN.
ASIC == <<"mlxsw", 0>>
ModuleTz(n) == <<"mlxsw-module", n>>
GearboxTz(n) == <<"mlxsw-gearbox", n>>
\* "mlxsw-gearbox{}".format(True), line 1220-1221
GearboxTrueTz == <<"mlxsw-gearboxTrue", 0>>
NoLink == <<>>

AllZones == {ASIC} \cup {ModuleTz(n) : n \in 1..MaxModules}
                   \cup {GearboxTz(n) : n \in 1..MaxGearboxes}

\* The zone directories that exist in the tree.
Zones == {ASIC} \cup {ModuleTz(n) : n \in 1..cfg.module_counter}
                \cup {GearboxTz(n) : n \in 1..cfg.gearbox_counter}

Modes == {"enabled", "disabled"}
Policies == {"step_wise", "user_space"}

\* Kernel-provided trip files of a zone (milli-C); the daemon only reads them.
TripNorm(z) == IF z[1] = "mlxsw-module" THEN TZ_MODULE_TRIPS[1] * 1000
                                        ELSE TZ_ASIC_TRIPS[1] * 1000
TripHigh(z) == IF z[1] = "mlxsw-module" THEN TZ_MODULE_TRIPS[2] * 1000
                                        ELSE TZ_ASIC_TRIPS[2] * 1000

(***************************************************************************)
(* Files.  A file is named <<name, index>>; sens.absent holds the files    *)
(* that are missing from the tree.  Small sensor files hold strings,       *)
(* temperatures hold integers (their decimal string is not modelled).      *)
(***************************************************************************)
File(name, n) == <<name, n>>
Exists(f) == f \notin sens.absent

\* int() of the strings the small files can hold; anything else raises
\* ValueError (lines 662-666).
StrToInt == [x \in {"0", "1", "5000"} |->
               CASE x = "0" -> 0 [] x = "1" -> 1 [] x = "5000" -> 5000]

\* _read_file, lines 610-625: the content, or default when the file is missing.
ReadFile(f, content, default) == IF Exists(f) THEN content ELSE default

\* _thermal_read_file_int, lines 652-667, of a string file: _read_file with
\* default '', then int(), and default on ValueError.
ReadFileInt(f, content, default) ==
  LET val == ReadFile(f, content, "")
  IN IF val \in DOMAIN StrToInt THEN StrToInt[val] ELSE default

\* _thermal_read_file_int of an integer-valued file.
ReadInt(f, value, default) == IF Exists(f) THEN value ELSE default

(***************************************************************************)
(* The state a tick works on: mem and tree, the exception that ended the   *)
(* tick ("none" while it runs), the number of reads of config/suspend so   *)
(* far and the read at which another process's write to config/suspend     *)
(* lands (flip, 0 for none), the number of writes to the tree, the values  *)
(* written to cooling_cur_state, the speeds pushed to the PSUs, the branch *)
(* of thermal_poll the tick took (path), and the locals flow_dir, trusted  *)
(* and ambient of _set_pwm_min_threshold (look, <<>> before it ran); land  *)
(* says that thermal_periodic_report, on the other timer's thread, runs    *)
(* between the two writes of _check_trip_min_vs_current_temp.              *)
(***************************************************************************)
Begin(flip) ==
  [m |-> mem, t |-> tree, exc |-> "none", nrd |-> 0, flip |-> flip,
   nwr |-> 0, cool |-> <<>>, i2c |-> <<>>, path |-> "begin", look |-> <<>>,
   land |-> FALSE]

Raise(s, e) == [s EXCEPT !.exc = e]

\* _thermal_write_file / _write_file, lines 627-640, 669-676, of a file of thermal/.
WriteFile(s, f, v) == [s EXCEPT !.t[f] = v, !.nwr = @ + 1]

WriteCooling(s, v) ==
  [s EXCEPT !.t.cooling_cur_state = v, !.nwr = @ + 1, !.cool = Append(@, v)]

\* A write of thermal/<zone>/<attr>: open() raises IOError when the zone
\* directory does not exist, which _write_file swallows (lines 635-640).
WriteTz(s, z, attr, v) ==
  IF z \in Zones THEN [s EXCEPT !.t[attr][z] = v, !.nwr = @ + 1] ELSE s

\* _write_file("mlxsw/thermal_zone_policy", ..) and its like (lines 907, 917,
\* 926, 969): the path lacks "thermal/", the directory <root>/mlxsw does not
\* exist, open() raises IOError and nothing is written.
WriteNoDir(s) == s

\* _write_file("mlxsw-module{0}thermal_zone_policy", "user_space".format(..)),
\* lines 980, 990: the name is never formatted, so a file of that literal
\* name is created in the root folder, outside the files modelled here.
WriteStray(s, name) == [s EXCEPT !.nwr = @ + 1]

Toggle(v) == IF v = "1" THEN "0" ELSE "1"

\* A read of config/suspend (_read_file, line 694 and 1258); the write of
\* another process lands just before the flip-th read of the tick.
ReadSuspend(s) ==
  LET n == s.nrd + 1
  IN [s EXCEPT !.nrd = n,
               !.t.suspend = IF n = s.flip THEN Toggle(@) ELSE @]

\* _tz_check_suspend, lines 687-697, on the state ReadSuspend returned.
TzCheckSuspend(s1) == s1.t.suspend = "1"

(***************************************************************************)
(* os.path.isfile of the highest_thermal_zone symlink (_check_file, lines  *)
(* 678-685, called at 1103, 1112, 1238).  isfile follows the link; every   *)
(* target the daemon gives it is a zone directory (or does not exist), so  *)
(* the answer is False whether or not the link is there.                   *)
(***************************************************************************)
\* IsRegularFile as os.path.lexists would answer: the link is there.
IsRegularFileLexists(target) == TRUE

IsRegularFile(target) == FALSE

CheckFileHighest(s) == s.t.link # NoLink /\ IsRegularFile(s.t.link)

\* os.symlink, lines 1113, 1221, 1224: OSError (EEXIST) when the link exists.
Symlink(s, target) ==
  IF s.t.link # NoLink THEN Raise(s, "OSError")
  ELSE [s EXCEPT !.t.link = target, !.nwr = @ + 1]

\* A write through thermal/highest_thermal_zone/<attr>: it reaches the zone
\* the link names, and is swallowed when there is no link or no such zone.
WriteHighest(s, attr, v) ==
  IF s.t.link # NoLink THEN WriteTz(s, s.t.link, attr, v) ELSE s


\* A read of thermal/<zone>/<attr>: _thermal_read_file's default '0' when the
\* zone directory does not exist.
ReadTz(s, z, attr) == IF z \in Zones THEN s.t[attr][z] ELSE "0"

\* for i in range(from, to + 1): s = Body(s, i)
RECURSIVE ForRange(_, _, _, _)
ForRange(Body(_, _), s, from, to) ==
  IF from > to THEN s ELSE ForRange(Body, Body(s, from), from + 1, to)

(***************************************************************************)
(* _validate_thermal_configuration, lines 730-770.                         *)
(***************************************************************************)
ValidateThermalConfiguration(s) ==
  /\ \A i \in 1..cfg.max_tachos :
        /\ ReadFile(File("fan_fault", i), sens.fan_fault[i], "0") # ""
        /\ ReadFile(File("fan_speed_get", i), sens.fan_speed_get[i], "0") # ""
  /\ Exists(File("cooling_cur_state", 0))
  /\ Exists(File("mlxsw/thermal_zone_mode", 0))
  /\ Exists(File("mlxsw/temp_trip_norm", 0))
  /\ Exists(File("mlxsw/thermal_zone_temp", 0))
  /\ Exists(File("pwm1", 0))
  /\ Exists(File("asic", 0))
  /\ \A i \in 1..s.m.module_counter :
        Exists(File("module_temp", i)) => Exists(File("module_temp_fault", i))
  /\ Exists(File("fan_amb", 0))
  /\ Exists(File("port_amb", 0))
  /\ (cfg.max_psus > 0 => \A i \in 1..cfg.max_psus : Exists(File("psu_status", i)))

(***************************************************************************)
(* _check_untrested_module_sensor, lines 772-784: [s, res].                *)
(***************************************************************************)
RECURSIVE CheckUntrustedFrom(_, _)
CheckUntrustedFrom(s, i) ==
  IF i > s.m.module_counter THEN [s |-> s, res |-> FALSE]
  ELSE LET s1 == ReadSuspend(s)
       IN IF TzCheckSuspend(s1) THEN [s |-> s1, res |-> FALSE]
          ELSE IF ReadFile(File("module_temp_fault", i),
                           sens.module_temp_fault[i], "0") = "1"
               THEN [s |-> s1, res |-> TRUE]
               ELSE CheckUntrustedFrom(s1, i + 1)

CheckUntrustedModuleSensor(s) == CheckUntrustedFrom(s, 1)

(***************************************************************************)
(* _set_pwm_min_threshold, lines 999-1031.                                 *)
(***************************************************************************)
Reverse(q) == [i \in 1..Len(q) |-> q[Len(q) + 1 - i]]

\* The order iteritems() visits a table line in.
IterItems(line) == IF cfg.dict_order = "rev" THEN Reverse(line) ELSE line

\* Matching falling back on the first band of the line when none holds the
\* ambient.
MatchingOrFirst(line, ambient) ==
  LET hit == SelectSeq(line, LAMBDA b : /\ b[1] * TEMP_TABLE_SCALE <= ambient
                                       /\ ambient <= b[2] * TEMP_TABLE_SCALE)
  IN IF hit = <<>> THEN <<line[1]>> ELSE hit

\* The bands of a line, in order, that hold the ambient (line 1026-1029).
Matching(line, ambient) ==
  SelectSeq(line, LAMBDA b : /\ b[1] * TEMP_TABLE_SCALE <= ambient
                              /\ ambient <= b[2] * TEMP_TABLE_SCALE)

\* FlowDir with the two directions exchanged.
FlowDirSwapped(temp_fan_ambient, temp_port_ambient) ==
  IF temp_fan_ambient > temp_port_ambient THEN "c2p"
  ELSE IF temp_fan_ambient < temp_port_ambient THEN "p2c"
  ELSE "unk"

\* lines 1012-1020: the direction of each branch.
FlowDir(temp_fan_ambient, temp_port_ambient) ==
  IF temp_fan_ambient > temp_port_ambient THEN "p2c"
  ELSE IF temp_fan_ambient < temp_port_ambient THEN "c2p"
  ELSE "unk"

\* Ambient taking the fan-side reading whatever the direction.
AmbientFanSide(temp_fan_ambient, temp_port_ambient) == temp_fan_ambient

\* lines 1012-1020: the ambient of each branch.
Ambient(temp_fan_ambient, temp_port_ambient) ==
  IF temp_fan_ambient > temp_port_ambient THEN temp_port_ambient
  ELSE temp_fan_ambient

\* SetFanDynamicMin storing the cooling state (level - FAN_MAX_STATE)
\* instead of the level.
SetFanDynamicMinAsState(s, val) == [s EXCEPT !.m.fan_dynamic_min = val - FAN_MAX_STATE]

\* line 1030: self.fan_dynamic_min = val
SetFanDynamicMin(s, val) == [s EXCEPT !.m.fan_dynamic_min = val]

SetPwmMinThreshold(s) ==
  IF s.exc # "none" THEN s
  ELSE
  LET r == CheckUntrustedModuleSensor(s)
      trusted == IF r.res THEN "untrust" ELSE "trust"
      temp_fan_ambient == ReadInt(File("fan_amb", 0), sens.fan_amb, 0)
      temp_port_ambient == ReadInt(File("port_amb", 0), sens.port_amb, 0)
      ambient == Ambient(temp_fan_ambient, temp_port_ambient)
      flow_dir == FlowDir(temp_fan_ambient, temp_port_ambient)
      table == THERMAL_TABLE_LIST[s.m.thermal_table].table
      key == flow_dir \o "_" \o trusted
      s1 == [r.s EXCEPT !.look = <<flow_dir, trusted, ambient>>]
  IN IF key \notin DOMAIN table THEN Raise(s1, "KeyError")
     ELSE LET hit == Matching(IterItems(table[key]), ambient)
          IN IF hit = <<>> THEN s1 ELSE SetFanDynamicMin(s1, hit[1][3])

(***************************************************************************)
(* _update_psu_fan_speed, lines 935-949.  PSU_FAN_SPEED[int(entry)] raises *)
(* IndexError when entry is past the vector (a negative entry would index  *)
(* from the end; the daemon writes none).                                  *)
(***************************************************************************)
UpdatePsuFan(s, psu) ==
  IF s.exc # "none" THEN s
  ELSE LET present == ReadFileInt(File("psu_pwr_status", psu),
                                  sens.psu_pwr_status[psu], 0)
           entry == s.t.cooling_cur_state
       IN IF present # 1 THEN s
          ELSE IF entry + 1 \notin DOMAIN PSU_FAN_SPEED THEN Raise(s, "IndexError")
          ELSE [s EXCEPT !.i2c = Append(@, <<psu, PSU_FAN_SPEED[entry + 1]>>)]

UpdatePsuFanSpeed(s) == ForRange(UpdatePsuFan, s, 1, cfg.max_psus)


(***************************************************************************)
(* _get_psu_presence, lines 890-933: [s, ret].                             *)
(***************************************************************************)
\* PsuDisableAsic with the mode written the way the policy is: to a path
\* that lacks "thermal/".
PsuDisableAsicNoDir(s) ==
  IF ReadTz(s, ASIC, "tz_mode") = "enabled" THEN WriteNoDir(s) ELSE s

\* lines 901-908: the policy is looked at only when the mode was enabled,
\* and its write goes to <root>/mlxsw/thermal_zone_policy.
PsuDisableAsic(s) ==
  IF ReadTz(s, ASIC, "tz_mode") = "enabled"
  THEN LET s1 == WriteTz(s, ASIC, "tz_mode", "disabled")
       IN IF ReadTz(s1, ASIC, "tz_policy") = "step_wise" THEN WriteNoDir(s1) ELSE s1
  ELSE s

\* lines 912-918 and 921-927
PsuDisableZone(s, z) ==
  LET s1 == IF ReadTz(s, z, "tz_mode") = "enabled"
            THEN WriteTz(s, z, "tz_mode", "disabled") ELSE s
  IN IF ReadTz(s1, z, "tz_policy") = "step_wise" THEN WriteNoDir(s1) ELSE s1

PsuDisableModule(s, module) == PsuDisableZone(s, ModuleTz(module))
PsuDisableGearbox(s, module) == PsuDisableZone(s, GearboxTz(module))

PsuAbsentPath(s) ==
  LET s1 == PsuDisableAsic(s)
      s2 == IF CALCULATE_TZ_SCORE # 0
            THEN ForRange(PsuDisableGearbox,
                          ForRange(PsuDisableModule, s1, 1, s.m.module_counter),
                          1, s.m.gearbox_counter)
            ELSE s1
      s3 == [s2 EXCEPT !.m.set_cur_state = COOLING_SET_MAX_STATE - FAN_MAX_STATE]
  IN WriteCooling(s3, COOLING_SET_MAX_STATE)

RECURSIVE GetPsuPresenceFrom(_, _)
GetPsuPresenceFrom(s, psu) ==
  IF psu > cfg.max_psus THEN [s |-> s, ret |-> PWM_NOACT]
  ELSE LET present == ReadFileInt(File("psu_status", psu), sens.psu_status[psu], 0)
       IN IF present = 0 THEN [s |-> PsuAbsentPath(s), ret |-> PWM_MAX]
          ELSE GetPsuPresenceFrom(s, psu + 1)

GetPsuPresence(s) == GetPsuPresenceFrom(s, 1)

(***************************************************************************)
(* _get_fan_faults, lines 951-997: [s, ret].                               *)
(***************************************************************************)
\* lines 963-970
FanDisableAsic(s) ==
  LET s1 == IF ReadTz(s, ASIC, "tz_mode") = "enabled"
            THEN WriteTz(s, ASIC, "tz_mode", "disabled") ELSE s
  IN IF ReadTz(s1, ASIC, "tz_policy") = "step_wise" THEN WriteNoDir(s1) ELSE s1

\* lines 974-981 and 984-991
FanDisableZone(s, z, stray) ==
  LET s1 == IF ReadTz(s, z, "tz_mode") = "enabled"
            THEN WriteTz(s, z, "tz_mode", "disabled") ELSE s
  IN IF ReadTz(s1, z, "tz_policy") = "step_wise" THEN WriteStray(s1, stray) ELSE s1

FanDisableModule(s, module) ==
  FanDisableZone(s, ModuleTz(module), "mlxsw-module{0}thermal_zone_policy")
FanDisableGearbox(s, module) ==
  FanDisableZone(s, GearboxTz(module), "mlxsw-gearbox{0}thermal_zone_policy")

FanFaultPath(s) ==
  LET s1 == FanDisableAsic(s)
      s2 == IF CALCULATE_TZ_SCORE # 0
            THEN ForRange(FanDisableModule, s1, 1, s.m.module_counter) ELSE s1
      s3 == ForRange(FanDisableGearbox, s2, 1, s.m.gearbox_counter)
      s4 == [s3 EXCEPT !.m.set_cur_state = COOLING_SET_MAX_STATE - FAN_MAX_STATE]
  IN WriteCooling(s4, s4.m.set_cur_state)

RECURSIVE GetFanFaultsFrom(_, _)
GetFanFaultsFrom(s, tacho) ==
  IF tacho > cfg.max_tachos THEN [s |-> s, ret |-> PWM_NOACT]
  ELSE LET fault == ReadFileInt(File("fan_fault", tacho), sens.fan_fault[tacho], 1)
           speed == ReadFileInt(File("fan_speed_get", tacho), sens.fan_speed_get[tacho], 0)
       IN IF fault = 1 \/ speed = 0 THEN [s |-> FanFaultPath(s), ret |-> PWM_MAX]
          ELSE GetFanFaultsFrom(s, tacho + 1)

GetFanFaults(s) == GetFanFaultsFrom(s, 1)

(***************************************************************************)
(* _check_trip_min_vs_current_temp, lines 1042-1066.                       *)
(***************************************************************************)
\* lines 1047-1052: the module zone is above its normal trip
ModuleAboveTripNorm(module) ==
  LET z == ModuleTz(module)
      temp_now == ReadInt(File("mlxsw-module/thermal_zone_temp", module), sens.tz_temp[z], 0)
      trip_norm == TripNorm(z)
  IN temp_now # 0 /\ temp_now > 0 /\ trip_norm < temp_now

\* lines 1055-1056: trip_norm is the string _thermal_read_file returns and
\* temp_now an int; Python 2 orders a str above every int.
PyStrGtInt(str_trip_norm, temp_now) == TRUE

\* lines 814-826 of thermal_periodic_report: what the report, run by the
\* other timer's thread, assigns to the shared set_cur_state.
ReportSetCurState(s) ==
  LET cooling == ReadInt(File("cooling_cur_state", 0), s.t.cooling_cur_state, 0)
      fan_dynamic_state == s.m.fan_dynamic_min - FAN_MAX_STATE
  IN IF cooling > s.m.set_cur_state \/ cooling >= fan_dynamic_state
     THEN [s EXCEPT !.m.set_cur_state = cooling] ELSE s

CheckTripMinVsCurrentTemp(s, state) ==
  IF s.exc # "none" THEN s
  ELSE IF \E module \in 1..s.m.module_counter : ModuleAboveTripNorm(module) THEN s
  ELSE LET temp_now == ReadInt(File("mlxsw/thermal_zone_temp", 0), sens.tz_temp[ASIC], 0)
       IN IF PyStrGtInt(TripNorm(ASIC), temp_now)
          THEN LET s1 == [s EXCEPT !.m.set_cur_state = s.m.fan_dynamic_min - FAN_MAX_STATE]
                   s2 == WriteCooling(s1, s1.m.fan_dynamic_min)
                   s3 == IF s2.land THEN ReportSetCurState(s2) ELSE s2
               IN WriteCooling(s3, s3.m.set_cur_state)
          ELSE s

(***************************************************************************)
(* _disable_zones_def_pwm, lines 1068-1096.                                *)
(***************************************************************************)
DefDisableZone(s, z, policy_z) ==
  LET s1 == IF ReadTz(s, z, "tz_mode") = "enabled"
            THEN WriteTz(s, z, "tz_mode", "disabled") ELSE s
  IN IF ReadTz(s1, z, "tz_policy") = "step_wise"
     THEN WriteTz(s1, policy_z, "tz_policy", "user_space") ELSE s1

DefDisableModule(s, module) == DefDisableZone(s, ModuleTz(module), ModuleTz(module))
\* line 1089-1090: the gearbox's policy is read, the module's is written
DefDisableGearbox(s, gearbox) == DefDisableZone(s, GearboxTz(gearbox), ModuleTz(gearbox))

\* DisableZonesDefPwm with the state (level - FAN_MAX_STATE) written to
\* cooling_cur_state, as _get_fan_faults writes it.
DisableZonesDefPwmState(s) ==
  LET s1 == DefDisableZone(s, ASIC, ASIC)
      s2 == ForRange(DefDisableModule, s1, 1, s.m.module_counter)
      s3 == ForRange(DefDisableGearbox, s2, 1, s.m.gearbox_counter)
      s4 == WriteFile(s3, "pwm1", PWM_DEF_RPM)
      s5 == [s4 EXCEPT !.m.set_cur_state = COOLING_SET_DEF_STATE - FAN_MAX_STATE]
  IN WriteCooling(s5, s5.m.set_cur_state)

DisableZonesDefPwm(s) ==
  LET s1 == DefDisableZone(s, ASIC, ASIC)
      s2 == ForRange(DefDisableModule, s1, 1, s.m.module_counter)
      s3 == ForRange(DefDisableGearbox, s2, 1, s.m.gearbox_counter)
      s4 == WriteFile(s3, "pwm1", PWM_DEF_RPM)
      s5 == [s4 EXCEPT !.m.set_cur_state = COOLING_SET_DEF_STATE - FAN_MAX_STATE]
  IN WriteCooling(s5, COOLING_SET_DEF_STATE)

(***************************************************************************)
(* _get_tz_highest_name and init_tz_highest, lines 1098-1119.              *)
(***************************************************************************)
\* the zone the link names, NoLink for None
GetTzHighestName(s) == IF CheckFileHighest(s) THEN s.t.link ELSE NoLink

\* InitTzHighest linking the first module zone instead of the ASIC zone.
InitTzHighestToModule(s) ==
  IF s.exc # "none" THEN s
  ELSE IF ~CheckFileHighest(s)
  THEN LET s1 == Symlink(s, ModuleTz(1))
       IN IF s1.exc # "none" THEN s1
          ELSE WriteFile(WriteFile(s1, "highest_tz_num", 0), "highest_score", 0)
  ELSE s

InitTzHighest(s) ==
  IF s.exc # "none" THEN s
  ELSE IF ~CheckFileHighest(s)
  THEN LET s1 == Symlink(s, ASIC)
       IN IF s1.exc # "none" THEN s1
          ELSE WriteFile(WriteFile(s1, "highest_tz_num", 0), "highest_score", 0)
  ELSE s


(***************************************************************************)
(* Zone scores, lines 1121-1180.  A score is <<n>>, or <<>> for None.      *)
(* Python 2 divides integers rounding down, as \div does.                  *)
(***************************************************************************)
None == <<>>

\* Python 2 orders None below every int (lines 1195, 1205).
PyGt(score, n) == score # None /\ score[1] > n

RECURSIVE Pow256(_)
Pow256(k) == IF k = 0 THEN 1 ELSE 256 * Pow256(k - 1)

\* tz_score_calculate, lines 1121-1127; None for ZeroDivisionError
TzScoreCalculate(temp_1, temp_2, shift) ==
  IF temp_2 + temp_1 = 0 THEN None
  ELSE <<(((temp_2 - temp_1) \div 2) \div (temp_2 + temp_1)) + shift>>

\* the first trip point above temp_curr (lines 1139-1145), 0 for none
FirstTrip(trips, temp_curr) ==
  LET above == {t_point \in 1..TRIP_POINTS_NUM : temp_curr < trips[t_point]}
  IN IF above = {} THEN 0
     ELSE CHOOSE t_point \in above : \A o \in above : t_point <= o

\* The body the three get_tz_*_score share: [s, score].
TzScore(s, f, temp, trips, score, asic) ==
  LET s1 == ReadSuspend(s)
      temp_curr == ReadInt(f, temp, 0) \div 1000
      t_point == FirstTrip(trips, temp_curr)
      new == TzScoreCalculate(temp_curr, trips[t_point], Pow256(t_point - 1))
  IN IF TzCheckSuspend(s1) THEN [s |-> s1, score |-> None]
     ELSE IF t_point = 0 THEN [s |-> s1, score |-> score]
     ELSE IF new = None THEN [s |-> Raise(s1, "ZeroDivisionError"), score |-> score]
     ELSE [s |-> IF asic THEN [s1 EXCEPT !.m.max_score = new[1]] ELSE s1,
           score |-> new]

\* get_tz_asic_score, lines 1129-1146
GetTzAsicScore(s, score) ==
  TzScore(s, File("mlxsw/thermal_zone_temp", 0), sens.tz_temp[ASIC],
          TZ_ASIC_TRIPS, score, TRUE)

\* get_tz_module_score, lines 1148-1163
GetTzModuleScore(s, module, score) ==
  TzScore(s, File("mlxsw-module/thermal_zone_temp", module),
          sens.tz_temp[ModuleTz(module)], TZ_MODULE_TRIPS, score, FALSE)

\* get_tz_gearbox_score, lines 1165-1180
GetTzGearboxScore(s, gearbox, score) ==
  TzScore(s, File("mlxsw-gearbox/thermal_zone_temp", gearbox),
          sens.tz_temp[GearboxTz(gearbox)], TZ_GEARBOX_TRIPS, score, FALSE)

(***************************************************************************)
(* get_tz_highest, lines 1182-1251.  The loops work on                     *)
(* [s, score, max_tz, ret]; ret says the function has returned.            *)
(***************************************************************************)
\* one turn of the loop of lines 1190-1198 (modules) or 1200-1208 (gearboxes)
TzTurn(l, n, exists, Score(_, _, _)) ==
  IF l.ret \/ l.s.exc # "none" \/ ~exists THEN l
  ELSE LET s1 == ReadSuspend(l.s)
       IN IF TzCheckSuspend(s1) THEN [l EXCEPT !.s = s1, !.ret = TRUE]
          ELSE LET r == Score(s1, n, l.score)
               IN IF r.s.exc # "none" THEN [l EXCEPT !.s = r.s]
                  ELSE IF PyGt(r.score, r.s.m.max_score)
                  THEN [s |-> WriteFile([r.s EXCEPT !.m.max_score = r.score[1]],
                                        "highest_score", r.score[1]),
                        score |-> r.score, max_tz |-> n, ret |-> FALSE]
                  ELSE [l EXCEPT !.s = r.s, !.score = r.score]

TzModuleTurn(l, module) ==
  TzTurn(l, module,
         ModuleTz(module) \in Zones
           /\ Exists(File("mlxsw-module/thermal_zone_temp", module)),
         GetTzModuleScore)

TzGearboxTurn(l, gearbox) ==
  TzTurn(l, gearbox,
         GearboxTz(gearbox) \in Zones
           /\ Exists(File("mlxsw-gearbox/thermal_zone_temp", gearbox)),
         GetTzGearboxScore)

\* os.unlink, line 1217
Unlink(s) == [s EXCEPT !.t.link = NoLink, !.nwr = @ + 1]

\* lines 1212-1217
TzDropHighest(s) ==
  IF GetTzHighestName(s) # NoLink
  THEN Unlink(WriteHighest(WriteHighest(s, "tz_policy", "user_space"),
                           "tz_mode", "disabled"))
  ELSE s

\* lines 1218-1227
TzLinkHighest(s, max_tz) ==
  IF max_tz = 0 THEN s
  ELSE LET s1 == IF max_tz > s.m.module_counter
                 THEN Symlink(s, GearboxTrueTz)
                 ELSE Symlink(s, ModuleTz(max_tz))
       IN IF s1.exc # "none" THEN s1
          ELSE WriteFile(WriteFile(s1, "highest_tz_num", max_tz),
                         "highest_score", s1.m.max_score)

\* lines 1240-1251: with no zone behind the link both reads return '' and
\* '' - HYSTERESIS raises TypeError.
TzHysteresisGate(s) ==
  IF s.exc # "none" THEN s
  ELSE IF s.t.link \notin Zones THEN Raise(s, "TypeError")
  ELSE LET temp_now == sens.tz_temp[s.t.link]
           trip_high == TripHigh(s.t.link) - HYSTERESIS
           cooling == s.t.cooling_cur_state
           s1 == [s EXCEPT !.m.set_cur_state = s.m.fan_dynamic_min - FAN_MAX_STATE]
       IN IF ~(trip_high > temp_now) THEN s
          ELSE IF cooling > s1.m.set_cur_state
          THEN WriteHighest(
                 WriteCooling(
                   WriteCooling(WriteHighest(s1, "tz_mode", "disabled"),
                                s1.m.fan_dynamic_min),
                   s1.m.set_cur_state),
                 "tz_mode", "enabled")
          ELSE s1

\* lines 1211-1251
TzRebind(s, max_tz) ==
  LET s1 == TzDropHighest(s)
      s2 == TzLinkHighest(s1, max_tz)
      s3 == ReadSuspend(s2)
      s4 == WriteHighest(WriteHighest(s3, "tz_policy", "step_wise"),
                         "tz_mode", "enabled")
      s5 == IF ~CheckFileHighest(s4) THEN InitTzHighest(s4) ELSE s4
  IN IF s2.exc # "none" THEN s2
     ELSE IF TzCheckSuspend(s3) THEN s3
     ELSE TzHysteresisGate(s5)

GetTzHighest(s) ==
  IF s.exc # "none" THEN s
  ELSE
  LET s0 == [s EXCEPT !.m.max_score = s.t.highest_score]
      a == GetTzAsicScore(s0, <<0>>)
      l0 == [s |-> a.s, score |-> a.score, max_tz |-> 0, ret |-> FALSE]
      l1 == ForRange(TzModuleTurn, l0, 1, s.m.module_counter - 1)
      l2 == ForRange(TzGearboxTurn, l1, 1, s.m.gearbox_counter - 1)
      highest_tz_num == l2.s.t.highest_tz_num
  IN IF l2.ret \/ l2.s.exc # "none" THEN l2.s
     ELSE IF l2.max_tz # highest_tz_num THEN TzRebind(l2.s, l2.max_tz)
     ELSE l2.s


(***************************************************************************)
(* thermal_poll, lines 1253-1323.                                          *)
(***************************************************************************)
At(s, path) == [s EXCEPT !.path = path]

\* lines 1259-1269: config/suspend differs from the cached flag
PollSuspendEdge(s, suspend) ==
  LET s1 == IF suspend = "1"
            THEN InitTzHighest(DisableZonesDefPwm(At(s, "suspend")))
            ELSE At(s, "resume")
  IN IF s1.exc # "none" THEN s1
     ELSE [s1 EXCEPT !.m.suspend_thermal = suspend]

\* lines 1270-1276: suspended, and the flag did not change
PollSuspended(s) ==
  IF s.t.pwm1 # PWM_DEF_RPM THEN DisableZonesDefPwm(At(s, "suspended"))
  ELSE At(s, "suspended")

\* PollDynamicMinChanged writing the percentage of the old minimum (fan_from).
PollDynamicMinChangedFrom(s) ==
  IF s.m.fan_dynamic_min # s.m.fan_dynamic_min_last
  THEN LET s1 == WriteCooling(s, s.m.fan_dynamic_min)
           fan_from == (s.m.fan_dynamic_min_last - FAN_MAX_STATE) * 10
           s2 == [s1 EXCEPT !.m.fan_dynamic_min_last = s.m.fan_dynamic_min]
       IN WriteFile(s2, "fan_dynamic_min", <<fan_from>>)
  ELSE s

\* lines 1302-1308
PollDynamicMinChanged(s) ==
  IF s.m.fan_dynamic_min # s.m.fan_dynamic_min_last
  THEN LET s1 == WriteCooling(s, s.m.fan_dynamic_min)
           fan_to == (s.m.fan_dynamic_min - FAN_MAX_STATE) * 10
           s2 == [s1 EXCEPT !.m.fan_dynamic_min_last = s.m.fan_dynamic_min]
       IN WriteFile(s2, "fan_dynamic_min", <<fan_to>>)
  ELSE s

\* lines 1312-1319: the policy written is the string "step_wice"
PollReenableAsic(s) ==
  IF CALCULATE_TZ_SCORE # 0
     /\ ReadTz(s, ASIC, "tz_mode") = "disabled" /\ s.t.highest_tz_num = 0
  THEN WriteTz(WriteTz(s, ASIC, "tz_mode", "enabled"), ASIC, "tz_policy", "step_wice")
  ELSE s

\* lines 1300-1323
PollNormal(s) ==
  LET s1 == PollReenableAsic(PollDynamicMinChanged(At(s, "normal")))
      s2 == CheckTripMinVsCurrentTemp(s1, 2)
  IN IF CALCULATE_TZ_SCORE # 0 THEN GetTzHighest(s2) ELSE s2

\* PollChecks validating after the dynamic minimum and the PSU fans are set.
PollChecksLate(s) ==
  LET s1 == UpdatePsuFanSpeed(SetPwmMinThreshold(At(s, "valid")))
      psu == GetPsuPresence(s1)
      fan == GetFanFaults(psu.s)
  IN IF s1.exc # "none" THEN s1
     ELSE IF ~ValidateThermalConfiguration(s) THEN At(s1, "invalid")
     ELSE IF psu.ret = PWM_MAX THEN InitTzHighest(At(psu.s, "psu"))
     ELSE IF fan.ret = PWM_MAX THEN InitTzHighest(At(fan.s, "fan"))
     ELSE PollNormal(fan.s)

\* lines 1278-1298
PollChecks(s) ==
  LET s1 == UpdatePsuFanSpeed(SetPwmMinThreshold(At(s, "valid")))
      psu == GetPsuPresence(s1)
      fan == GetFanFaults(psu.s)
  IN IF ~ValidateThermalConfiguration(s) THEN At(s, "invalid")
     ELSE IF s1.exc # "none" THEN s1
     ELSE IF psu.ret = PWM_MAX THEN InitTzHighest(At(psu.s, "psu"))
     ELSE IF fan.ret = PWM_MAX THEN InitTzHighest(At(fan.s, "fan"))
     ELSE PollNormal(fan.s)

\* The state a tick ends in, given the read of config/suspend at which the
\* write of another process lands and whether a report lands in the tick.
Poll(flip, land) ==
  LET s1 == ReadSuspend([Begin(flip) EXCEPT !.land = land])
      suspend == s1.t.suspend
  IN IF suspend # "" /\ suspend # s1.m.suspend_thermal THEN PollSuspendEdge(s1, suspend)
     ELSE IF s1.m.suspend_thermal = "1" THEN PollSuspended(s1)
     ELSE PollChecks(s1)

\* What the history variable keeps of the last init, start or tick: the
\* branch taken, the exception that ended it, the number of writes, the
\* values written to cooling_cur_state, the locals of the dynamic-minimum
\* lookup; and in report the exception that ended the last report since
\* ("" when none ran).
Record(op, s) ==
  [op |-> op, path |-> s.path, exc |-> s.exc, nwr |-> s.nwr, cool |-> s.cool,
   look |-> s.look, report |-> ""]

NoRecord(op) ==
  [op |-> op, path |-> "", exc |-> "none", nwr |-> 0, cool |-> <<>>,
   look |-> <<>>, report |-> ""]

\* The reads of config/suspend at which another process's write may land
\* (0: no write during the tick); env.flips holds those a specification
\* lets happen.
FlipPoints == {0}

\* Whether a report lands in a tick; env.lands holds the cases a
\* specification lets happen.
NoLanding == {FALSE}

\* What a call of thermal_poll does to the object, the tree and the history.
PollCallback ==
  \E flip \in env.flips, land \in env.lands :
     LET s == Poll(flip, land)
     IN /\ mem' = s.m
        /\ tree' = s.t
        /\ last' = Record("thermal_poll", s)

thermal_poll ==
  /\ phase = "running"
  /\ PollCallback
  /\ UNCHANGED <<phase, cfg, sens, env, timers>>

(***************************************************************************)
(* thermal_periodic_report, lines 806-888.  It writes no file; it assigns  *)
(* set_cur_state and indexes PSU_FAN_SPEED (a negative index counts from    *)
(* the end of the list).                                                   *)
(***************************************************************************)
\* PeriodicReport writing the cooling state it settled on back to
\* cooling_cur_state.
PeriodicReportWriting(s) ==
  LET cooling == ReadInt(File("cooling_cur_state", 0), s.t.cooling_cur_state, 0)
      dyn_state == s.m.fan_dynamic_min - FAN_MAX_STATE
      s1 == IF cooling > s.m.set_cur_state \/ cooling >= dyn_state
            THEN [s EXCEPT !.m.set_cur_state = cooling] ELSE s
  IN WriteCooling(s1, dyn_state)

PeriodicReport(s) ==
  LET cooling == ReadInt(File("cooling_cur_state", 0), s.t.cooling_cur_state, 0)
      dyn_state == s.m.fan_dynamic_min - FAN_MAX_STATE
      s1 == IF cooling > s.m.set_cur_state \/ cooling >= dyn_state
            THEN [s EXCEPT !.m.set_cur_state = cooling] ELSE s
      fan_dynamic_state == IF cooling > s.m.set_cur_state
                           THEN (IF cooling > dyn_state THEN cooling ELSE dyn_state)
                           ELSE IF cooling >= dyn_state THEN cooling ELSE dyn_state
      n == Len(PSU_FAN_SPEED)
  IN IF fan_dynamic_state >= n \/ fan_dynamic_state < -n
     THEN Raise(s1, "IndexError") ELSE s1

\* What a call of thermal_periodic_report does.
ReportCallback ==
  LET s == PeriodicReport(At(Begin(0), "report"))
  IN /\ mem' = s.m
     /\ tree' = s.t
     /\ last' = [last EXCEPT !.report = s.exc]

thermal_periodic_report ==
  /\ phase = "running"
  /\ ReportCallback
  /\ UNCHANGED <<phase, cfg, sens, env, timers>>


(***************************************************************************)
(* RepeatedTimer, lines 428-473.  A RepeatedTimer holds is_running and     *)
(* _timer, the last threading.Timer it made: "armed" while that Timer      *)
(* waits for its interval, "cancelled" once cancel() reached it in time,   *)
(* "fired" once the interval elapsed and its thread entered _run ("none":  *)
(* the attribute of the controller is still None).  stray counts armed     *)
(* Timers _timer no longer refers to.  threads are the Timer threads       *)
(* inside _run: pc is the statement of RunOrder they are at, inside says   *)
(* that the statement is function() and the call has not returned.         *)
(***************************************************************************)
MaxThreads == 2

\* report_timer and polling_timer (lines 576 and 579).
TimerNames == {"report", "poll"}

RtNone == [is_running |-> FALSE, timer |-> "none", stray |-> 0, threads |-> <<>>]

\* RepeatedTimer.start, lines 457-465.
RtStart(t) ==
  IF t.is_running THEN t
  ELSE [t EXCEPT !.stray = IF t.timer = "armed" THEN @ + 1 ELSE @,
                 !.timer = "armed",
                 !.is_running = TRUE]

\* RepeatedTimer.__init__, lines 432-446.
RtInit == RtStart(RtNone)

\* _timer.cancel(), line 472: a Timer that has fired is past its wait.
RtCancel(t) == [t EXCEPT !.timer = IF @ = "armed" THEN "cancelled" ELSE @]

\* line 473 (and 453): is_running = False
RtClear(t) == [t EXCEPT !.is_running = FALSE]

\* _run calling the function before it re-arms.
RunOrderFunctionFirst == <<"clear", "function", "start">>

\* The statements of _run, lines 453-455.
RunOrder == <<"clear", "start", "function">>

\* The Timers of a RepeatedTimer that wait for their interval.
Armed(t) == t.stray + (IF t.timer = "armed" THEN 1 ELSE 0)

\* The thread k of a RepeatedTimer moves past its statement; after the last
\* one it ends.
Advance(t, k) ==
  IF t.threads[k].pc = Len(RunOrder)
  THEN [t EXCEPT !.threads = SubSeq(@, 1, k - 1) \o SubSeq(@, k + 1, Len(@))]
  ELSE [t EXCEPT !.threads[k] = [pc |-> @.pc + 1, inside |-> FALSE]]

\* The thread k of t is about to execute the given statement of _run.
AtStatement(t, k, stmt) ==
  /\ k \in DOMAIN t.threads
  /\ ~t.threads[k].inside
  /\ RunOrder[t.threads[k].pc] = stmt

\* The process has threads to run: Daemon.start got past start().
Alive == phase \notin {"constructed", "inited", "exit"}

(***************************************************************************)
(* ThermalManagement.init and start, as Daemon.start calls them            *)
(* (lines 536-582, 1446-1467).  A non-zero result or an exception ends the *)
(* process: phase "exit".                                                  *)
(***************************************************************************)
init ==
  /\ phase = "constructed"
  /\ LET thermal_table == GetFanDynamicTable(cfg.type)
     IN IF thermal_table = "None"
        THEN /\ phase' = "exit"
             /\ mem' = mem
             /\ last' = [NoRecord("init") EXCEPT !.path = "unsupported"]
        ELSE /\ phase' = "inited"
             /\ mem' = [mem EXCEPT !.thermal_table = thermal_table,
                                   !.module_counter = cfg.module_counter,
                                   !.gearbox_counter = cfg.gearbox_counter]
             /\ last' = NoRecord("init")
  /\ UNCHANGED <<cfg, tree, sens, env, timers>>

\* line 570: int(None) raises TypeError when config/thermal_delay is missing
Start(s) ==
  IF ~cfg.thermal_delay THEN Raise(s, "TypeError") ELSE InitTzHighest(s)

start ==
  /\ phase = "inited"
  /\ LET s == Start(At(Begin(0), "start"))
     IN /\ phase' = IF s.exc = "none" THEN "running" ELSE "exit"
        /\ mem' = s.m
        /\ tree' = s.t
        /\ last' = Record("start", s)
        /\ timers' = IF s.exc = "none" THEN [r \in TimerNames |-> RtInit] ELSE timers
  /\ UNCHANGED <<cfg, sens, env>>

(***************************************************************************)
(* The Timer threads.  A Timer fires when its interval has elapsed and     *)
(* cancel() has not reached it; its thread then runs _run statement by     *)
(* statement.  Timer threads are not daemon threads: they go on after the  *)
(* main thread has ended.                                                  *)
(***************************************************************************)
\* threading.Timer.run: the wait ended without cancel(); the thread enters _run.
timer_fire ==
  /\ Alive
  /\ \E r \in TimerNames :
        LET t == timers[r]
        IN /\ Armed(t) > 0
           /\ Len(t.threads) < MaxThreads
           /\ \E stray \in {TRUE, FALSE} :
                 /\ IF stray THEN t.stray > 0 ELSE t.timer = "armed"
                 /\ timers' = [timers EXCEPT ![r] =
                       [t EXCEPT !.stray = IF stray THEN @ - 1 ELSE @,
                                 !.timer = IF stray THEN @ ELSE "fired",
                                 !.threads = Append(@, [pc |-> 1, inside |-> FALSE])]]
  /\ UNCHANGED <<phase, cfg, mem, tree, sens, env, last>>

\* line 453: self.is_running = False
run_clear ==
  /\ Alive
  /\ \E r \in TimerNames : \E k \in DOMAIN timers[r].threads :
        /\ AtStatement(timers[r], k, "clear")
        /\ timers' = [timers EXCEPT ![r] = Advance(RtClear(timers[r]), k)]
  /\ UNCHANGED <<phase, cfg, mem, tree, sens, env, last>>

\* line 454: self.start()
run_start ==
  /\ Alive
  /\ \E r \in TimerNames : \E k \in DOMAIN timers[r].threads :
        /\ AtStatement(timers[r], k, "start")
        /\ timers' = [timers EXCEPT ![r] = Advance(RtStart(timers[r]), k)]
  /\ UNCHANGED <<phase, cfg, mem, tree, sens, env, last>>

\* line 455: self.function() is called; the callback does its reads and
\* writes and goes on to its log lines and sleeps.
run_function ==
  /\ Alive
  /\ \E r \in TimerNames : \E k \in DOMAIN timers[r].threads :
        /\ AtStatement(timers[r], k, "function")
        /\ timers' = [timers EXCEPT ![r].threads[k].inside = TRUE]
        /\ IF r = "poll" THEN PollCallback ELSE ReportCallback
  /\ UNCHANGED <<phase, cfg, sens, env>>

\* line 455: the callback returns, or an exception ends it.
run_return ==
  /\ Alive
  /\ \E r \in TimerNames : \E k \in DOMAIN timers[r].threads :
        /\ timers[r].threads[k].inside
        /\ timers' = [timers EXCEPT ![r] = Advance(timers[r], k)]
  /\ UNCHANGED <<phase, cfg, mem, tree, sens, env, last>>

(***************************************************************************)
(* ThermalManagement.stop, lines 584-592, called by the owner of the       *)
(* controller while the timers run: report_timer.stop(), then              *)
(* polling_timer.stop(), each _timer.cancel() and then is_running = False  *)
(* (lines 472-473).  phase walks through StopPhases.                       *)
(***************************************************************************)
StopPhases ==
  <<"stop_report_cancel", "stop_report_clear", "stop_poll_cancel", "stop_poll_clear",
    "stopped">>

StopTimer(i) == IF i <= 2 THEN "report" ELSE "poll"

stop ==
  /\ phase = "running"
  /\ phase' = StopPhases[1]
  /\ last' = NoRecord("stop")
  /\ UNCHANGED <<cfg, mem, tree, sens, env, timers>>

\* line 472: self._timer.cancel()
stop_cancel ==
  /\ \E i \in {1, 3} :
        /\ phase = StopPhases[i]
        /\ phase' = StopPhases[i + 1]
        /\ timers' = [timers EXCEPT ![StopTimer(i)] = RtCancel(@)]
  /\ UNCHANGED <<cfg, mem, tree, sens, env, last>>

\* line 473: self.is_running = False
stop_clear ==
  /\ \E i \in {2, 4} :
        /\ phase = StopPhases[i]
        /\ phase' = StopPhases[i + 1]
        /\ timers' = [timers EXCEPT ![StopTimer(i)] = RtClear(@)]
  /\ UNCHANGED <<cfg, mem, tree, sens, env, last>>

(***************************************************************************)
(* Daemon.sig_handler, lines 1410-1422.  The test of line 1416 builds the  *)
(* list [signal.signal.SIGTERM, signal.SIGINT] first; signal.signal is a   *)
(* built-in function and has no attribute SIGTERM, so the handler raises   *)
(* AttributeError for every signal, in the main thread, which ends         *)
(* (phase "main_ended") without stop().                                    *)
(***************************************************************************)
Signals == {"SIGTERM", "SIGINT", "SIGUSR1", "SIGUSR2"}

\* getattr(signal.signal, name)
SignalSignalAttr(name) == "AttributeError"

\* The branch the handler takes: "stop" (line 1419), "trip" (line 1421) or
\* the exception that ends it.
SigHandler(sig) ==
  IF SignalSignalAttr("SIGTERM") = "AttributeError" THEN "AttributeError"
  ELSE IF sig \in {"SIGTERM", "SIGINT"} THEN "stop"
  ELSE IF SignalSignalAttr("SIGUSR1") = "AttributeError" THEN "AttributeError"
  ELSE IF sig \in {"SIGUSR1", "SIGUSR2"} THEN "trip"
  ELSE "exit"

sig_handler ==
  /\ phase = "running"
  /\ \E sig \in Signals :
        LET branch == SigHandler(sig)
        IN /\ phase' = IF branch = "stop" THEN StopPhases[1] ELSE "main_ended"
           /\ last' = [NoRecord("sig_handler") EXCEPT
                         !.path = sig,
                         !.exc = IF branch = "AttributeError" THEN branch ELSE "none"]
  /\ UNCHANGED <<cfg, mem, tree, sens, env, timers>>

(***************************************************************************)
(* The environment: the kernel updates the sensor files, and another       *)
(* process runs "suspend" or "resume" (tz_set_suspend, lines 699-705).     *)
(* env names the readings each sensor takes.                               *)
(***************************************************************************)
EnvSuspend ==
  /\ phase = "running"
  /\ \E v \in {"0", "1"} : tree' = [tree EXCEPT !.suspend = v]
  /\ UNCHANGED <<phase, cfg, mem, sens, env, last, timers>>

EnvAmbient ==
  /\ phase = "running"
  /\ \E a \in env.ambients :
        sens' = [sens EXCEPT !.fan_amb = a[1], !.port_amb = a[2]]
  /\ UNCHANGED <<phase, cfg, mem, tree, env, last, timers>>

EnvTacho ==
  /\ phase = "running"
  /\ \E i \in 1..cfg.max_tachos, r \in env.tachos :
        sens' = [sens EXCEPT !.fan_fault[i] = r[1], !.fan_speed_get[i] = r[2]]
  /\ UNCHANGED <<phase, cfg, mem, tree, env, last, timers>>

EnvPsu ==
  /\ phase = "running"
  /\ \E i \in 1..cfg.max_psus, r \in env.psus :
        sens' = [sens EXCEPT !.psu_status[i] = r[1], !.psu_pwr_status[i] = r[2]]
  /\ UNCHANGED <<phase, cfg, mem, tree, env, last, timers>>

EnvModuleFault ==
  /\ phase = "running"
  /\ \E i \in env.fault_modules, v \in {"0", "1"} :
        sens' = [sens EXCEPT !.module_temp_fault[i] = v]
  /\ UNCHANGED <<phase, cfg, mem, tree, env, last, timers>>

EnvZoneTemp ==
  /\ phase = "running"
  /\ \E z \in Zones : \E temp \in env.temps[z] :
        sens' = [sens EXCEPT !.tz_temp[z] = temp]
  /\ UNCHANGED <<phase, cfg, mem, tree, env, last, timers>>

EnvHotplug ==
  /\ phase = "running"
  /\ \E f \in env.hotplug :
        sens' = [sens EXCEPT !.absent = IF f \in @ THEN @ \ {f} ELSE @ \cup {f}]
  /\ UNCHANGED <<phase, cfg, mem, tree, env, last, timers>>

(***************************************************************************)
(* Initial states: the object __init__ built (lines 498-517), a tree with  *)
(* nominal sensor readings, and one of the given configurations.           *)
(***************************************************************************)
InitMem ==
  [suspend_thermal |-> "0", fan_dynamic_min |-> 12, fan_dynamic_min_last |-> 12,
   set_cur_state |-> 0, module_counter |-> 0, gearbox_counter |-> 0,
   max_score |-> 0, thermal_table |-> "None"]

InitSens ==
  [fan_amb |-> 20000, port_amb |-> 20000,
   fan_fault |-> [i \in 1..MaxTachos |-> "0"],
   fan_speed_get |-> [i \in 1..MaxTachos |-> "5000"],
   psu_status |-> [i \in 1..MaxPsus |-> "1"],
   psu_pwr_status |-> [i \in 1..MaxPsus |-> "1"],
   module_temp_fault |-> [i \in 1..MaxModules |-> "0"],
   tz_temp |-> [z \in AllZones |-> 50000],
   absent |-> {}]

InitTree(link, mode, policy) ==
  [suspend |-> "0", pwm1 |-> 255, cooling_cur_state |-> 0,
   fan_dynamic_min |-> <<>>, highest_tz_num |-> 0, highest_score |-> 0,
   link |-> link,
   tz_mode |-> [z \in AllZones |-> mode],
   tz_policy |-> [z \in AllZones |-> policy]]

Configs(types, counters, orders, delays) ==
  {[type |-> type, max_tachos |-> MaxTachos, max_psus |-> MaxPsus,
    module_counter |-> c[1], gearbox_counter |-> c[2],
    dict_order |-> o, thermal_delay |-> d] :
     type \in types, c \in counters, o \in orders, d \in delays}

InitWith(configs, links, modes, policies, e) ==
  /\ phase = "constructed"
  /\ cfg \in configs
  /\ mem = InitMem
  /\ \E link \in links, mode \in modes, policy \in policies :
        tree = InitTree(link, mode, policy)
  /\ sens = InitSens
  /\ env = e
  /\ last = NoRecord("construct")
  /\ timers = [r \in TimerNames |-> RtNone]

\* The readings of the control-flow specification: the ambients move the
\* dynamic minimum, module 1 goes above its normal trip, a tacho faults or
\* stops, a PSU loses power or is pulled.
EnvCtl ==
  [ambients |-> {<<20000, 20000>>, <<45000, 45000>>},
   tachos |-> {<<"0", "5000">>, <<"1", "5000">>, <<"0", "0">>},
   psus |-> {<<"1", "1">>, <<"1", "0">>, <<"0", "0">>},
   fault_modules |-> {},
   temps |-> [z \in AllZones |-> IF z = ModuleTz(1) THEN {50000, 85000} ELSE {50000}],
   hotplug |-> {},
   flips |-> FlipPoints,
   lands |-> NoLanding]

Init ==
  InitWith(Configs({2, 7}, {<<MaxModules, MaxGearboxes>>}, {"fwd"}, {TRUE, FALSE}),
           {NoLink, ASIC},
           {"enabled"}, {"step_wise"}, EnvCtl)

Next ==
  \/ init
  \/ start
  \/ thermal_poll
  \/ thermal_periodic_report
  \/ EnvSuspend
  \/ EnvAmbient
  \/ EnvTacho
  \/ EnvPsu
  \/ EnvZoneTemp

Spec == Init /\ [][Next]_vars

(***************************************************************************)
(* The emergency exits and suspend alone: tachos, PSUs, the ambients and   *)
(* config/suspend change, the zone temperatures stay nominal.              *)
(***************************************************************************)
EnvEm ==
  [ambients |-> {<<20000, 20000>>, <<45000, 45000>>},
   tachos |-> {<<"0", "5000">>, <<"1", "5000">>, <<"0", "0">>},
   psus |-> {<<"1", "1">>, <<"1", "0">>, <<"0", "0">>},
   fault_modules |-> {},
   temps |-> [z \in AllZones |-> {50000}],
   hotplug |-> {},
   flips |-> FlipPoints,
   lands |-> NoLanding]

InitEm ==
  InitWith(Configs({2, 7}, {<<MaxModules, MaxGearboxes>>}, {"fwd"}, {TRUE, FALSE}),
           {NoLink, ASIC}, {"enabled"}, {"step_wise"}, EnvEm)

NextEm ==
  \/ init
  \/ start
  \/ thermal_poll
  \/ EnvSuspend
  \/ EnvAmbient
  \/ EnvTacho
  \/ EnvPsu

SpecEm == InitEm /\ [][NextEm]_vars

\* A tick would change the object, the tree or the history: the enabling
\* condition of <<thermal_poll>>_vars as a state function.
PollCanChange ==
  /\ phase = "running"
  /\ \E flip \in env.flips, land \in env.lands :
        LET s == Poll(flip, land)
        IN <<s.m, s.t, Record("thermal_poll", s)>> # <<mem, tree, last>>

\* The poll timer re-arms itself before every callback (lines 448-455), so
\* a running daemon keeps ticking whatever the sensors do in between:
\* strong fairness of thermal_poll, with its enabling condition spelled out.
PollFair == <>[]~PollCanChange \/ []<><<thermal_poll>>_vars

\* Daemon.start calls init() and then start() (lines 1424-1467), and the
\* poll timer keeps firing.
SpecEmLive ==
  InitEm /\ [][NextEm]_vars /\ WF_vars(init) /\ WF_vars(start) /\ PollFair

(***************************************************************************)
(* The dynamic minimum: every class (0, 7: unsupported), both orders of    *)
(* iteritems(), ambients at the ends of the bands, in the overlaps and the *)
(* gaps of the tables and outside -127..120, each as both sides equal      *)
(* (unk), the fan side warmer (p2c) and the port side warmer (c2p), and    *)
(* module 1 reporting a temperature fault or not.                          *)
(***************************************************************************)
AmbientSteps == {25500, 31000}

\* <<fan_amb, port_amb>> readings at the ends of the tables' range, outside
\* it, and inside single bands.
AmbientPairs ==
  {<<-128000, -128000>>, <<-127000, -127000>>, <<18000, 18000>>,
   <<20000, 25000>>, <<45000, 20000>>, <<38500, 38000>>,
   <<120000, 120000>>, <<121000, 121000>>}

EnvMin ==
  [ambients |-> AmbientPairs \cup
                UNION {{<<a, a>>, <<a + 500, a>>, <<a, a + 500>>} : a \in AmbientSteps},
   tachos |-> {<<"0", "5000">>},
   psus |-> {<<"1", "1">>},
   fault_modules |-> {1},
   temps |-> [z \in AllZones |-> {50000}],
   hotplug |-> {},
   flips |-> FlipPoints,
   lands |-> NoLanding]

InitMin ==
  InitWith(Configs(0..7, {<<MaxModules, MaxGearboxes>>}, {"fwd", "rev"}, {TRUE}),
           {NoLink}, {"enabled"}, {"step_wise"}, EnvMin)

NextMin ==
  \/ init
  \/ start
  \/ thermal_poll
  \/ EnvAmbient
  \/ EnvModuleFault

SpecMin == InitMin /\ [][NextMin]_vars

(***************************************************************************)
(* The highest-zone tracker: with modules and without (then a gearbox      *)
(* number is above module_counter), the ASIC, module 1 and gearbox 1       *)
(* cool or hot, a tacho fault (the emergency exit calls init_tz_highest)   *)
(* and suspend.                                                            *)
(***************************************************************************)
EnvTz ==
  [ambients |-> {<<20000, 20000>>},
   tachos |-> {<<"0", "5000">>, <<"1", "5000">>},
   psus |-> {<<"1", "1">>},
   fault_modules |-> {},
   temps |-> [z \in AllZones |->
                CASE z = ASIC -> {50000, 90000}
                  [] z = ModuleTz(1) -> {50000, 85000}
                  [] z = GearboxTz(1) -> {50000, 80000}
                  [] OTHER -> {50000}],
   hotplug |-> {},
   flips |-> FlipPoints,
   lands |-> NoLanding]

InitTz ==
  InitWith(Configs({2}, {<<MaxModules, MaxGearboxes>>, <<0, MaxGearboxes>>},
                   {"fwd"}, {TRUE}),
           {NoLink, ASIC}, {"enabled"}, {"step_wise"}, EnvTz)

NextTz ==
  \/ init
  \/ start
  \/ thermal_poll
  \/ EnvSuspend
  \/ EnvTacho
  \/ EnvZoneTemp

SpecTz == InitTz /\ [][NextTz]_vars

(***************************************************************************)
(* The score of the ASIC zone over its first tier: readings from well      *)
(* below zero to above the first trip; module 1 cool or above its last     *)
(* trip, the other zones cool.                                             *)
(***************************************************************************)
EnvCold ==
  [ambients |-> {<<20000, 20000>>},
   tachos |-> {<<"0", "5000">>},
   psus |-> {<<"1", "1">>},
   fault_modules |-> {},
   temps |-> [z \in AllZones |->
                IF z = ASIC
                THEN {-80000, -75000, -74000, -40000, -10000, 0, 50000, 74000, 80000}
                ELSE IF z = ModuleTz(1) THEN {50000, 95000}
                ELSE {50000}],
   hotplug |-> {},
   flips |-> FlipPoints,
   lands |-> NoLanding]

InitCold ==
  InitWith(Configs({2}, {<<MaxModules, MaxGearboxes>>, <<0, MaxGearboxes>>},
                   {"fwd"}, {TRUE}),
           {NoLink}, {"enabled"}, {"step_wise"}, EnvCold)

NextCold ==
  \/ init
  \/ start
  \/ thermal_poll
  \/ EnvSuspend
  \/ EnvZoneTemp

SpecCold == InitCold /\ [][NextCold]_vars

(***************************************************************************)
(* Another process writing config/suspend between ticks and while a tick   *)
(* runs: the write lands before the tick's first read of the file, or      *)
(* before one of the reads of _check_untrested_module_sensor, the modules  *)
(* reporting temperature faults or not; and the report timer's thread      *)
(* running thermal_periodic_report inside a tick.                          *)
(***************************************************************************)
MaxFlipPoint == 3

EnvRace ==
  [ambients |-> {<<20000, 20000>>},
   tachos |-> {<<"0", "5000">>},
   psus |-> {<<"1", "1">>},
   fault_modules |-> 1..MaxModules,
   temps |-> [z \in AllZones |-> {50000}],
   hotplug |-> {},
   flips |-> 0..MaxFlipPoint,
   lands |-> BOOLEAN]

InitRace ==
  InitWith(Configs({2}, {<<MaxModules, MaxGearboxes>>}, {"fwd"}, {TRUE}),
           {NoLink}, {"enabled"}, {"step_wise"}, EnvRace)

NextRace ==
  \/ init
  \/ start
  \/ thermal_poll
  \/ EnvSuspend
  \/ EnvModuleFault

SpecRace == InitRace /\ [][NextRace]_vars

(***************************************************************************)
(* The tracker while another process writes config/suspend: the write      *)
(* lands before one of the tick's reads of the file, those of the tracker  *)
(* included, the ASIC, module 1 and gearbox 1 cool or hot.                 *)
(***************************************************************************)
EnvTzRace == [EnvTz EXCEPT !.flips = 0..MaxFlipPoint]

InitTzRace ==
  InitWith(Configs({2}, {<<MaxModules, MaxGearboxes>>, <<0, MaxGearboxes>>},
                   {"fwd"}, {TRUE}),
           {NoLink}, {"enabled"}, {"step_wise"}, EnvTzRace)

NextTzRace ==
  \/ init
  \/ start
  \/ thermal_poll
  \/ EnvSuspend
  \/ EnvZoneTemp

SpecTzRace == InitTzRace /\ [][NextTzRace]_vars

(***************************************************************************)
(* Validation: the tacho files, thermal/asic and a PSU's status file       *)
(* disappear and come back, the ambient moves between two bands and        *)
(* another process suspends and resumes.                                   *)
(***************************************************************************)
EnvValid ==
  [ambients |-> {<<20000, 20000>>, <<45000, 45000>>},
   tachos |-> {<<"0", "5000">>},
   psus |-> {<<"1", "1">>},
   fault_modules |-> {},
   temps |-> [z \in AllZones |-> {50000}],
   hotplug |-> {File("asic", 0)} \cup {File("psu_status", i) : i \in 1..MaxPsus}
                 \cup {File("fan_fault", i) : i \in 1..MaxTachos}
                 \cup {File("fan_speed_get", i) : i \in 1..MaxTachos},
   flips |-> FlipPoints,
   lands |-> NoLanding]

InitValid ==
  InitWith(Configs({2}, {<<MaxModules, MaxGearboxes>>}, {"fwd"}, {TRUE}),
           {NoLink}, {"enabled"}, {"step_wise"}, EnvValid)

NextValid ==
  \/ init
  \/ start
  \/ thermal_poll
  \/ EnvSuspend
  \/ EnvAmbient
  \/ EnvHotplug

SpecValid == InitValid /\ [][NextValid]_vars

(***************************************************************************)
(* The report between ticks: the ambients move the dynamic minimum, a PSU  *)
(* loses power or is pulled, another process suspends and resumes.         *)
(***************************************************************************)
EnvReport ==
  [ambients |-> {<<20000, 20000>>, <<45000, 45000>>},
   tachos |-> {<<"0", "5000">>},
   psus |-> {<<"1", "1">>, <<"1", "0">>, <<"0", "0">>},
   fault_modules |-> {},
   temps |-> [z \in AllZones |-> {50000}],
   hotplug |-> {},
   flips |-> FlipPoints,
   lands |-> NoLanding]

InitReport ==
  InitWith(Configs({2}, {<<MaxModules, MaxGearboxes>>}, {"fwd"}, {TRUE}),
           {NoLink}, {"enabled"}, {"step_wise"}, EnvReport)

NextReport ==
  \/ init
  \/ start
  \/ thermal_poll
  \/ thermal_periodic_report
  \/ EnvSuspend
  \/ EnvAmbient
  \/ EnvPsu

SpecReport == InitReport /\ [][NextReport]_vars

(***************************************************************************)
(* The timers: the Timer threads of both RepeatedTimers run _run and the   *)
(* callbacks over a tree whose sensors stay as they are, and a signal      *)
(* reaches the daemon (SpecTimer) or the owner of the controller calls     *)
(* stop() (SpecStop).                                                      *)
(***************************************************************************)
EnvTimer ==
  [ambients |-> {<<20000, 20000>>},
   tachos |-> {<<"0", "5000">>},
   psus |-> {<<"1", "1">>},
   fault_modules |-> {},
   temps |-> [z \in AllZones |-> {50000}],
   hotplug |-> {},
   flips |-> FlipPoints,
   lands |-> NoLanding]

InitTimer ==
  InitWith(Configs({2}, {<<MaxModules, MaxGearboxes>>}, {"fwd"}, {TRUE}),
           {NoLink}, {"enabled"}, {"step_wise"}, EnvTimer)

NextTimer ==
  \/ init
  \/ start
  \/ timer_fire
  \/ run_clear
  \/ run_start
  \/ run_function
  \/ run_return
  \/ sig_handler

SpecTimer == InitTimer /\ [][NextTimer]_vars

NextStop ==
  \/ init
  \/ start
  \/ timer_fire
  \/ run_clear
  \/ run_start
  \/ run_function
  \/ run_return
  \/ stop
  \/ stop_cancel
  \/ stop_clear

SpecStop == InitTimer /\ [][NextStop]_vars

(***************************************************************************)
(* Properties.  A tick is identified by the history variable: last.path is *)
(* the branch of thermal_poll the last tick took, "psu" and "fan" being    *)
(* the two emergency exits (lines 1290-1298), reached only after           *)
(* validation passed.  No step but a tick writes the files of thermal/, so *)
(* what holds of them at the end of a tick holds until the next tick.      *)
(***************************************************************************)
Ticked == last.op = "thermal_poll"
EmergencyTick == Ticked /\ last.path \in {"psu", "fan"}

\* C1: after a tick that passed validation and saw a PSU absent or a tacho
\* faulty or stopped, thermal/cooling_cur_state holds COOLING_SET_MAX_STATE.
C1_EmergencyCoolingMax ==
  EmergencyTick => tree.cooling_cur_state = COOLING_SET_MAX_STATE

\* C2: after a tick that passed validation and saw a PSU absent or a tacho
\* faulty or stopped, thermal/mlxsw/thermal_zone_mode is "disabled".
C2_EmergencyAsicDisabled ==
  EmergencyTick => tree.tz_mode[ASIC] = "disabled"

\* An emergency tick that found the ASIC zone enabled and wrote to the tree.
C2_Witness ==
  /\ EmergencyTick
  /\ last.path = "psu"
  /\ last.nwr >= 2
  /\ tree.tz_mode[ASIC] = "disabled"

\* C3: after an emergency tick thermal/mlxsw/thermal_zone_policy is
\* "user_space".
C3_EmergencyAsicUserSpace ==
  EmergencyTick => tree.tz_policy[ASIC] = "user_space"

\* C4: the in-memory dynamic minimum is a cooling level:
\* FAN_MAX_STATE <= fan_dynamic_min <= COOLING_SET_MAX_STATE.
C4_DynamicMinInRange ==
  mem.fan_dynamic_min \in FAN_MAX_STATE..COOLING_SET_MAX_STATE

\* A tick of class 4 has looked up the top level of the tables.
C4_Witness ==
  /\ Ticked
  /\ last.path = "normal"
  /\ mem.thermal_table = "TC4"
  /\ mem.fan_dynamic_min = COOLING_SET_MAX_STATE

(***************************************************************************)
(* Suspend and resume.  The readings a tick finds.                         *)
(***************************************************************************)
PsuAbsent == \E psu \in 1..cfg.max_psus : sens.psu_status[psu] = "0"
TachoFault ==
  \E tacho \in 1..cfg.max_tachos :
     sens.fan_fault[tacho] = "1" \/ sens.fan_speed_get[tacho] = "0"
ModuleAboveNorm == \E module \in 1..cfg.module_counter : ModuleAboveTripNorm(module)

\* C5: a tick that starts when config/suspend holds "1" (it takes the branch
\* "suspend" or "suspended" of thermal_poll) ends with thermal/pwm1 =
\* PWM_DEF_RPM and thermal/cooling_cur_state = COOLING_SET_DEF_STATE.
C5_SuspendTickSetsDefaults ==
  Ticked /\ last.path \in {"suspend", "suspended"}
    => tree.pwm1 = PWM_DEF_RPM /\ tree.cooling_cur_state = COOLING_SET_DEF_STATE

\* A tick has seen config/suspend = "1" and left the defaults behind, the
\* fans having run at another level before.
C5_Witness ==
  /\ Ticked
  /\ last.path = "suspend"
  /\ last.cool = <<COOLING_SET_DEF_STATE>>
  /\ tree.suspend = "1"
  /\ tree.pwm1 = PWM_DEF_RPM
  /\ tree.cooling_cur_state = COOLING_SET_DEF_STATE

\* C6: after the tick that observes config/suspend = "1" no zone (ASIC,
\* module 1..module_counter, gearbox 1..gearbox_counter) has mode "enabled"
\* or policy "step_wise".
C6_SuspendDisablesAllZones ==
  Ticked /\ last.path = "suspend"
    => \A z \in Zones : tree.tz_mode[z] # "enabled" /\ tree.tz_policy[z] # "step_wise"

C8_ResumeNotStuck ==
  [][thermal_poll /\ Ticked /\ last.path \in {"suspend", "suspended", "resume"}
                  /\ tree.suspend = "0" /\ mem.suspend_thermal = "0"
                  /\ ~PsuAbsent /\ ~TachoFault /\ ~ModuleAboveNorm
       => tree'.cooling_cur_state = mem'.fan_dynamic_min - FAN_MAX_STATE]_vars

\* C9: the clean tick (all PSUs present, no tacho fault, highest_tz_num = 0)
\* that follows an emergency tick, when it completes, leaves the ASIC zone
\* with mode "enabled" and policy "step_wise".
C9_EmergencyRoundTrip ==
  [][thermal_poll /\ EmergencyTick /\ ~PsuAbsent /\ ~TachoFault
                  /\ tree.highest_tz_num = 0
                  /\ last'.path = "normal" /\ last'.exc = "none"
       => tree'.tz_mode[ASIC] = "enabled" /\ tree'.tz_policy[ASIC] = "step_wise"]_vars

\* C10: the highest_thermal_zone symlink, when present, targets mlxsw,
\* mlxsw-moduleN with 1 <= N <= module_counter, or mlxsw-gearboxN with
\* 1 <= N <= gearbox_counter.
C10_HighestLinkNamesZone ==
  tree.link # NoLink => tree.link \in Zones

\* The tracker found a gearbox zone above the recorded score, on a system
\* without module zones, and went to retarget the link.
C10_Witness ==
  /\ Ticked
  /\ last.path = "normal"
  /\ last.exc = "OSError"
  /\ mem.module_counter = 0
  /\ tree.highest_score > 1
  /\ tree.link = ASIC

(***************************************************************************)
(* The dynamic-minimum lookup of the last tick.                            *)
(***************************************************************************)
\* The last tick ran _set_pwm_min_threshold up to the table lookup.
Looked == Ticked /\ last.look # <<>>

LookedKey == last.look[1] \o "_" \o last.look[2]
LookedAmbient == last.look[3]

\* The bands of a table line that hold an ambient.
BandsHolding(line, ambient) ==
  {b \in {line[i] : i \in DOMAIN line} :
     b[1] * 1000 <= ambient /\ ambient <= b[2] * 1000}

\* C11: for every class, direction, trust value and ambient within
\* -127000..120000 the lookup finds its key in the class table and a band of
\* that key that holds the ambient, and dynamic_min is that band's level.
C11_LookupFindsBand ==
  (Looked /\ LookedAmbient \in -127000..120000) =>
     LET table == THERMAL_TABLE_LIST[mem.thermal_table].table
     IN /\ LookedKey \in DOMAIN table
        /\ \E b \in BandsHolding(table[LookedKey], LookedAmbient) :
              mem.fan_dynamic_min = b[3]

\* C12: when more than one band of the key holds the ambient, dynamic_min is
\* the level of a holding band whose lower bound is the largest.
C12_OverlapPicksLargestLo ==
  (Looked /\ LookedKey \in DOMAIN THERMAL_TABLE_LIST[mem.thermal_table].table) =>
     LET holding == BandsHolding(THERMAL_TABLE_LIST[mem.thermal_table].table[LookedKey],
                                 LookedAmbient)
     IN Cardinality(holding) > 1 =>
          \E b \in holding : /\ \A c \in holding : c[1] <= b[1]
                             /\ mem.fan_dynamic_min = b[3]

\* Some module the daemon counts reports a temperature fault.
ModuleFault ==
  \E i \in 1..mem.module_counter : sens.module_temp_fault[i] = "1"

TC1HotFanTick ==
  /\ thermal_poll /\ last'.look # <<>>
  /\ mem.thermal_table = "TC1" /\ mem.module_counter >= 1
  /\ sens.fan_amb = 45000 /\ sens.port_amb = 20000
  /\ sens.module_temp_fault[1] = "1"

C15_UntrustIffModuleFault ==
  [][thermal_poll /\ last'.look # <<>>
       => ((last'.look[2] = "untrust") <=> ModuleFault)]_vars

\* C16: once thermal/fan_dynamic_min has been written it holds
\* (fan_dynamic_min_last - FAN_MAX_STATE) * 10, and after every tick that took
\* the normal path fan_dynamic_min_last equals fan_dynamic_min.
C16_DynamicMinFileFollowsLast ==
  /\ tree.fan_dynamic_min # <<>>
       => tree.fan_dynamic_min[1] = (mem.fan_dynamic_min_last - FAN_MAX_STATE) * 10
  /\ (Ticked /\ last.path = "normal")
       => mem.fan_dynamic_min_last = mem.fan_dynamic_min

\* A normal tick of class 1 has raised the minimum to 16 and written 60.
C16_Witness ==
  /\ Ticked /\ last.path = "normal"
  /\ last.nwr >= 2
  /\ mem.fan_dynamic_min_last = 16
  /\ tree.fan_dynamic_min = <<60>>
  /\ mem.thermal_table = "TC1"

(***************************************************************************)
(* Validation.                                                             *)
(***************************************************************************)
\* The tick that starts now passes the suspend checks of lines 1258-1276.
NotSuspended == tree.suspend = "0" /\ mem.suspend_thermal = "0"

TachoFileMissing ==
  \E N \in 1..cfg.max_tachos :
     \/ File("fan_fault", N) \in sens.absent
     \/ File("fan_speed_get", N) \in sens.absent

\* C17: a tick that reaches validation while thermal/fanN_fault or
\* thermal/fanN_speed_get is missing for some tacho N aborts as invalid.
C17_MissingTachoFileInvalid ==
  [][thermal_poll /\ NotSuspended /\ TachoFileMissing
       => last'.path = "invalid"]_vars

\* C18: a tick whose validation fails leaves the tree and the controller's
\* fields as they were, and the tick after it validates again: with every
\* file back it is not invalid.
C18_InvalidTickChangesNothing ==
  [][thermal_poll
       => /\ last'.path = "invalid" => (tree' = tree /\ mem' = mem)
          /\ (/\ Ticked /\ last.path = "invalid"
              /\ NotSuspended /\ sens.absent = {})
               => last'.path # "invalid"]_vars

\* A tick found thermal/asic missing while the ambient called for another
\* minimum than the one in force.
C18_Witness ==
  /\ Ticked /\ last.path = "invalid"
  /\ File("asic", 0) \in sens.absent
  /\ sens.fan_amb = 45000
  /\ mem.fan_dynamic_min = 12

(***************************************************************************)
(* Exceptions.                                                             *)
(***************************************************************************)
\* C19: no exception escapes a thermal_poll tick: every tick runs to its
\* normal return.
C19_NoExceptionEscapes ==
  Ticked => last.exc = "none"

\* C20: the PSU fan push indexes PSU_FAN_SPEED within its 11 entries for
\* every powered PSU and every cooling_cur_state in 0..20: no tick ends in
\* the IndexError of an index past the vector.
C20_PsuFanIndexInVector ==
  [][(/\ thermal_poll
      /\ \E psu \in 1..cfg.max_psus : sens.psu_pwr_status[psu] = "1"
      /\ tree.cooling_cur_state \in 0..COOLING_SET_MAX_STATE)
       => last'.exc # "IndexError"]_vars

(***************************************************************************)
(* The periodic report.                                                    *)
(***************************************************************************)
\* C21: thermal_periodic_report leaves every file and the symlink of the
\* tree as they were, whatever state it runs in and however it ends.
C21_ReportWritesNothing ==
  [][thermal_periodic_report => tree' = tree]_vars

\* A report has run to its end after a tick that wrote cooling_cur_state, and
\* it has taken the file's value for set_cur_state.
C21_Witness ==
  /\ Ticked /\ last.nwr > 0
  /\ last.report = "none"
  /\ tree.cooling_cur_state > 0
  /\ mem.set_cur_state = tree.cooling_cur_state

(***************************************************************************)
(* The timers and stop().                                                  *)
(***************************************************************************)
\* The threads of a RepeatedTimer that are inside the callback.
Inside(t) == {k \in DOMAIN t.threads : t.threads[k].inside}

\* A callback is invoked in this step.
Invoked(r) == Cardinality(Inside(timers'[r])) > Cardinality(Inside(timers[r]))

\* C22: once stop() of the controller has returned, neither the poll
\* callback nor the report callback is invoked again, whatever a Timer thread
\* that had already fired was doing in _run while stop() ran.
C22_NoCallbackAfterStop ==
  [][phase = "stopped" => \A r \in TimerNames : ~Invoked(r)]_vars

\* C23: an execution of thermal_poll and an execution of
\* thermal_periodic_report never overlap: no state has a thread inside each
\* of the two callbacks.
C23_CallbacksNeverOverlap ==
  ~(Inside(timers["poll"]) # {} /\ Inside(timers["report"]) # {})

\* C24: at most one Timer of a RepeatedTimer is armed at any time, and a
\* thread that is about to call or is inside the callback has re-armed
\* first: until that next Timer fires (the thread is the only one of its
\* RepeatedTimer) it is pending.
C24_RearmedBeforeCallback ==
  \A r \in TimerNames :
     /\ Armed(timers[r]) <= 1
     /\ (/\ Len(timers[r].threads) = 1
         /\ RunOrder[timers[r].threads[1].pc] = "function")
          => timers[r].timer = "armed"

\* The poll callback is running and the next polling Timer is armed.
C24_Witness ==
  /\ Inside(timers["poll"]) = {1}
  /\ Len(timers["poll"].threads) = 1
  /\ timers["poll"].timer = "armed"
  /\ Ticked

\* C25: when the signal handler has received SIGTERM or SIGINT with the
\* controller running, the controller's stop() is entered.
C25_TermSignalCallsStop ==
  [][(/\ phase = "running" /\ phase' # "running"
      /\ last'.op = "sig_handler" /\ last'.path \in {"SIGTERM", "SIGINT"})
       => phase' = StopPhases[1]]_vars

(***************************************************************************)
(* init and start.                                                         *)
(***************************************************************************)
\* C26: for a class outside 1..6 init() returns non-zero and no ticker is
\* ever made; for a class in 1..6 init() returns 0 with the table of that
\* class, class 6 taking the table of class 5.
C26_InitRejectsUnsupportedClass ==
  /\ cfg.type \notin 1..6 =>
       /\ phase \in {"constructed", "exit"}
       /\ \A r \in TimerNames : timers[r] = RtNone
       /\ phase = "exit" => (last.op = "init" /\ last.path = "unsupported")
  /\ cfg.type \in 1..6 =>
       /\ ~(phase = "exit" /\ last.op = "init")
       /\ phase # "constructed" =>
            mem.thermal_table = <<"TC1", "TC2", "TC3", "TC4", "TC5", "TC5">>[cfg.type]

\* The daemon of class 6 runs with the table of class 5 and has ticked.
C26_Witness ==
  /\ cfg.type = 6
  /\ phase = "running"
  /\ mem.thermal_table = "TC5"
  /\ timers["poll"] # RtNone
  /\ Ticked

\* C27: a missing file is never fatal: start() with config/thermal_delay
\* missing takes a default, raises nothing and leaves the daemon running.
C27_MissingDelayNotFatal ==
  (last.op = "start" /\ ~cfg.thermal_delay)
    => (last.exc = "none" /\ phase = "running")

(***************************************************************************)
(* The highest-zone tracker.                                               *)
(***************************************************************************)
\* The trip tier of a reading in millidegrees (0 above the last trip).
TierAt(trips, temp) == FirstTrip(trips, temp \div 1000)

\* The score of a reading in millidegrees, None where none is computed.
ScoreAt(trips, temp) ==
  LET temp_curr == temp \div 1000
      t_point == TierAt(trips, temp)
  IN IF t_point = 0 THEN None
     ELSE TzScoreCalculate(temp_curr, trips[t_point], Pow256(t_point - 1))

\* The score of a zone at its present temperature (0 where none is computed).
ZoneScore(z) ==
  LET trips == IF z = ASIC THEN TZ_ASIC_TRIPS
               ELSE IF z[1] = "mlxsw-module" THEN TZ_MODULE_TRIPS
               ELSE TZ_GEARBOX_TRIPS
      score == ScoreAt(trips, sens.tz_temp[z])
  IN IF score = None THEN 0 ELSE score[1]

\* The zone has a score above every other zone's.
StrictlyHighest(z) == \A o \in Zones \ {z} : ZoneScore(z) > ZoneScore(o)

\* A tick that runs the tracker with config/suspend at "0" throughout.
TrackerStep ==
  /\ thermal_poll
  /\ last'.path = "normal"
  /\ tree.suspend = "0" /\ tree'.suspend = "0"

\* C28: after a tracker step, a module zone N in 1..module_counter whose
\* score is strictly above the ASIC's and every other zone's is the target
\* of highest_thermal_zone, highest_tz_num is N and highest_score its score.
C28_HighestModuleSelected ==
  [][TrackerStep =>
       \A N \in 1..mem.module_counter :
          StrictlyHighest(ModuleTz(N)) =>
             /\ tree'.link = ModuleTz(N)
             /\ tree'.highest_tz_num = N
             /\ tree'.highest_score = ZoneScore(ModuleTz(N))]_vars

\* C29: after a tracker step, a gearbox zone G in 1..gearbox_counter with
\* the strictly highest score is the target of highest_thermal_zone and
\* highest_tz_num holds module_counter + G.
C29_HighestGearboxSelected ==
  [][TrackerStep =>
       \A G \in 1..mem.gearbox_counter :
          StrictlyHighest(GearboxTz(G)) =>
             /\ tree'.link = GearboxTz(G)
             /\ tree'.highest_tz_num = mem.module_counter + G]_vars

\* C30: within one trip tier the score the tracker computes for the ASIC
\* zone is monotone non-decreasing in the temperature, negative readings
\* included: after a tracker step that completes, the score is at least the
\* score of every colder reading of the same tier.
C30_ScoreMonotoneInTemp ==
  [][(TrackerStep /\ last'.exc = "none") =>
       \A colder \in env.temps[ASIC] :
          LET now == sens.tz_temp[ASIC]
              score == ScoreAt(TZ_ASIC_TRIPS, colder)
          IN (/\ colder <= now
              /\ TierAt(TZ_ASIC_TRIPS, colder) = TierAt(TZ_ASIC_TRIPS, now)
              /\ score # None)
             => score[1] <= mem'.max_score]_vars

\* The tier of a reading counted upwards: at or above the last trip is the
\* tier after the last.
TierRank(trips, temp) ==
  IF TierAt(trips, temp) = 0 THEN TRIP_POINTS_NUM + 1 ELSE TierAt(trips, temp)

\* C31: a zone in a strictly higher trip tier (at or above its last trip
\* included) scores strictly higher than a zone in a lower tier: after a
\* tracker step in which a module zone the loop visits is in a higher tier
\* than the ASIC, the highest score found is above the ASIC's score.
C31_HigherTierDominates ==
  [][TrackerStep =>
       \A N \in 1..(mem.module_counter - 1) :
          LET asic == ScoreAt(TZ_ASIC_TRIPS, sens.tz_temp[ASIC])
          IN (/\ asic # None
              /\ TierRank(TZ_MODULE_TRIPS, sens.tz_temp[ModuleTz(N)])
                   > TierRank(TZ_ASIC_TRIPS, sens.tz_temp[ASIC]))
             => mem'.max_score > asic[1]]_vars

\* C32: _check_trip_min_vs_current_temp writes nothing when the ASIC zone
\* is at or above its normal trip: a normal tick that sees the ASIC there
\* and does not change the dynamic minimum writes nothing to
\* cooling_cur_state.
C32_NoReduceAtOrAboveTripNorm ==
  [][(/\ thermal_poll
      /\ last'.path = "normal"
      /\ mem'.fan_dynamic_min = mem.fan_dynamic_min_last
      /\ \A N \in 1..mem.module_counter : ~ModuleAboveTripNorm(N)
      /\ sens.tz_temp[ASIC] >= TripNorm(ASIC))
     => last'.cool = <<>>]_vars

\* C33: a tracker step that changes the highest zone leaves the previous
\* highest zone with mode disabled and policy user_space and the new one
\* with policy step_wise and mode enabled: after a step in which a module
\* zone the loop visits has the strictly highest score while the link
\* targets the ASIC, the ASIC is disabled and the module enabled.
C33_OldDisabledNewEnabled ==
  [][TrackerStep =>
       \A N \in 1..(mem.module_counter - 1) :
          (tree.link = ASIC /\ StrictlyHighest(ModuleTz(N))) =>
             /\ tree'.tz_mode[ASIC] = "disabled"
             /\ tree'.tz_policy[ASIC] = "user_space"
             /\ tree'.tz_mode[ModuleTz(N)] = "enabled"
             /\ tree'.tz_policy[ModuleTz(N)] = "step_wise"]_vars

\* The writes to cooling_cur_state a normal tick may make with dynamic
\* minimum d: the write of a changed minimum, then the lowering pair of
\* _check_trip_min_vs_current_temp, then the pair of the hysteresis gate.
LoweringWrites(d) ==
  LET pair == <<d, d - FAN_MAX_STATE>>
  IN {<<>>, <<d>>, pair, <<d>> \o pair, pair \o pair, <<d>> \o pair \o pair}

\* C34: whenever a tick lowers cooling, cooling_cur_state receives two
\* consecutive writes: the dynamic minimum (10..20) and then the dynamic
\* minimum less FAN_MAX_STATE.
C34_LoweringWritesInOrder ==
  (Ticked /\ last.path = "normal") =>
     /\ mem.fan_dynamic_min \in FAN_MAX_STATE..COOLING_SET_MAX_STATE
     /\ last.cool \in LoweringWrites(mem.fan_dynamic_min)

\* No PSU is absent, no tacho faulty or stopped and config/suspend holds "0".
Clean == ~PsuAbsent /\ ~TachoFault /\ tree.suspend = "0"

\* An emergency or suspend tick has disabled the zone the link names.
DisabledByTick ==
  /\ Ticked /\ last.path \in {"psu", "fan", "suspend", "suspended"}
  /\ tree.link \in Zones /\ tree.tz_mode[tree.link] = "disabled"

HighestEnabled == tree.link \in Zones /\ tree.tz_mode[tree.link] = "enabled"

\* C35: after an emergency or suspend tick disabled the zones, once the
\* fault or suspend has cleared and stays cleared, the zone that
\* highest_thermal_zone names is eventually enabled again.
C35_RecoveryEnablesHighest ==
  []((DisabledByTick /\ []Clean) => <>HighestEnabled)

\* The zone highest_tz_num = N stands for: the ASIC for 0, module N up to
\* module_counter, gearbox N - module_counter above it.
ZoneNumbered(N) ==
  IF N = 0 THEN ASIC
  ELSE IF N <= mem.module_counter THEN ModuleTz(N)
  ELSE GearboxTz(N - mem.module_counter)

\* C36: at the end of every completed tick in which the tracker ran,
\* whatever another process wrote to config/suspend meanwhile, the
\* highest_thermal_zone link exists and targets the zone highest_tz_num
\* stands for.
C36_LinkAgreesWithNumber ==
  (Ticked /\ last.path = "normal" /\ last.exc = "none") =>
     /\ tree.link # NoLink
     /\ tree.link = ZoneNumbered(tree.highest_tz_num)

\* A tick completed although gearbox 1 was hot: the write of "1" to
\* config/suspend landed while the tracker ran and ended it early.
C36_Witness ==
  /\ Ticked /\ last.path = "normal" /\ last.exc = "none"
  /\ tree.suspend = "1" /\ mem.suspend_thermal = "0"
  /\ sens.tz_temp[GearboxTz(1)] > TZ_GEARBOX_TRIPS[1] * 1000
  /\ tree.link = ASIC

\* The lookup of the tick just made found its key and no band of it that
\* holds the ambient.
NoBandHolds(look) ==
  LET table == THERMAL_TABLE_LIST[mem.thermal_table].table
      key == look[1] \o "_" \o look[2]
  IN /\ key \in DOMAIN table
     /\ BandsHolding(table[key], look[3]) = {}

C38_SetCurStateInRange ==
  /\ mem.set_cur_state \in 0..FAN_MAX_STATE
  /\ last.report # "IndexError"

\* C39: init_tz_highest is idempotent.  A tick that reaches it (the PSU and
\* tachometer emergency branches, the suspend branch) with no
\* highest_thermal_zone link creates the link to thermal/mlxsw and writes
\* highest_tz_num = 0 and highest_score = 0; with the link already there it
\* completes without an exception and leaves the link, highest_tz_num and
\* highest_score as they were.
C39_InitTzHighestIdempotent ==
  [][(thermal_poll /\ last'.path \in {"psu", "fan", "suspend"}) =>
       IF tree.link = NoLink
       THEN /\ tree'.link = ASIC
            /\ tree'.highest_tz_num = 0
            /\ tree'.highest_score = 0
       ELSE /\ last'.exc = "none"
            /\ tree'.link = tree.link
            /\ tree'.highest_tz_num = tree.highest_tz_num
            /\ tree'.highest_score = tree.highest_score]_vars

=============================================================================
